---- MODULE Spec2Model ----
(***************************************************************************)
(* Safe archive extraction of sagemaker/workflow/_repack_model.py:         *)
(* _get_resolved_path, _is_bad_path, _is_bad_link, _get_safe_members and   *)
(* custom_extractall_tarfile, together with the file system they read and  *)
(* the extraction pass (tarfile.extractall) that consumes the generator.   *)
(*                                                                         *)
(* A path string is modelled by its parse: whether it starts with "/" and  *)
(* its sequence of segments; a segment is a sequence of characters, so     *)
(* that str.startswith is computed on the rendered characters.             *)
(***************************************************************************)
EXTENDS Naturals, Sequences, FiniteSets, TLC

\* ------------------------------------------------------------------------
\* Bounds of the model
\* ------------------------------------------------------------------------

\* largest number of members read from one archive
MaxMembers == 3

\* ------------------------------------------------------------------------
\* Path strings
\* ------------------------------------------------------------------------

SEP == "/"
DOT == <<".">>
DOTDOT == <<".", ".">>

RelPath(segs) == [abs |-> FALSE, segs |-> segs]
AbsPath(segs) == [abs |-> TRUE, segs |-> segs]

\* the empty string "" (tarinfo.linkname of a member that is not a link)
EmptyPath == RelPath(<<>>)

Front(s) == IF s = <<>> THEN <<>> ELSE SubSeq(s, 1, Len(s) - 1)

RECURSIVE JoinSegs(_)
JoinSegs(segs) ==
  IF segs = <<>> THEN <<>>
  ELSE IF Len(segs) = 1 THEN Head(segs)
  ELSE Head(segs) \o <<SEP>> \o JoinSegs(Tail(segs))

\* the characters of a path string
ToStr(p) ==
  IF p.abs THEN <<SEP>> \o JoinSegs(p.segs)
  ELSE IF p.segs = <<>> THEN DOT
  ELSE JoinSegs(p.segs)

\* str.startswith
startswith(s, prefix) ==
  /\ Len(prefix) <= Len(s)
  /\ SubSeq(s, 1, Len(prefix)) = prefix

\* os.path.join(a, b): b replaces a when b is absolute
joinpath(a, b) ==
  IF b.abs THEN b ELSE [abs |-> a.abs, segs |-> a.segs \o b.segs]

\* os.path.dirname
dirname(p) == [abs |-> p.abs, segs |-> Front(p.segs)]

\* os.path.normpath: the lexical collapse of "." and ".." (no file system)
RECURSIVE NormComps(_, _, _)
NormComps(abs, new_comps, comps) ==
  IF comps = <<>> THEN new_comps
  ELSE LET comp == Head(comps) IN
    IF comp = DOT THEN NormComps(abs, new_comps, Tail(comps))
    ELSE IF \/ comp # DOTDOT
            \/ (~abs /\ new_comps = <<>>)
            \/ (new_comps # <<>> /\ new_comps[Len(new_comps)] = DOTDOT)
         THEN NormComps(abs, Append(new_comps, comp), Tail(comps))
    ELSE IF new_comps # <<>>
         THEN NormComps(abs, Front(new_comps), Tail(comps))
    ELSE NormComps(abs, new_comps, Tail(comps))

normpath(p) == [abs |-> p.abs, segs |-> NormComps(p.abs, <<>>, p.segs)]

\* os.path.abspath: join to the working directory, then normpath
abspath(p, cwd) == normpath(joinpath(AbsPath(cwd), p))

\* ------------------------------------------------------------------------
\* The file system: a function from physical locations (sequences of
\* segments below the root) to nodes
\* ------------------------------------------------------------------------

DirNode == [kind |-> "dir", target |-> EmptyPath]
FileNode == [kind |-> "file", target |-> EmptyPath]
SymNode(t) == [kind |-> "sym", target |-> t]

islink(fs, loc) == loc \in DOMAIN fs /\ fs[loc].kind = "sym"

Put(fs, loc, node) ==
  [x \in DOMAIN fs \cup {loc} |-> IF x = loc THEN node ELSE fs[x]]

\* posixpath._joinrealpath: resolve rest below the resolved directory path,
\* following the symlinks on disk; components that do not exist are kept
\* as they are; inprog are the links whose resolution is under way (a link
\* met again while under way is a loop: the rest is returned unresolved)
RECURSIVE JoinRealpath(_, _, _, _)
JoinRealpath(fs, path, rest, inprog) ==
  IF rest = <<>> THEN [path |-> path, ok |-> TRUE]
  ELSE LET name == Head(rest)
           tl == Tail(rest)
       IN
    IF name = DOT THEN JoinRealpath(fs, path, tl, inprog)
    ELSE IF name = DOTDOT THEN JoinRealpath(fs, Front(path), tl, inprog)
    ELSE LET newpath == Append(path, name) IN
      IF ~islink(fs, newpath) THEN JoinRealpath(fs, newpath, tl, inprog)
      ELSE IF newpath \in inprog THEN [path |-> newpath \o tl, ok |-> FALSE]
      ELSE LET tgt == fs[newpath].target
               r == JoinRealpath(fs, IF tgt.abs THEN <<>> ELSE path,
                                 tgt.segs, inprog \cup {newpath})
           IN IF ~r.ok THEN [path |-> r.path \o tl, ok |-> FALSE]
              ELSE JoinRealpath(fs, r.path, tl, inprog)

\* os.path.realpath: a relative path is resolved from the working directory
realpath(fs, cwd, p) ==
  normpath(AbsPath(JoinRealpath(fs, IF p.abs THEN <<>> ELSE cwd, p.segs, {}).path))

\* os.path.commonpath([target, dest]) = dest: containment by whole segments
SegWithin(target, dest) ==
  /\ Len(dest.segs) <= Len(target.segs)
  /\ SubSeq(target.segs, 1, Len(dest.segs)) = dest.segs

\* ------------------------------------------------------------------------
\* Archive members (tarfile.TarInfo): type, name and linkname
\* ------------------------------------------------------------------------

REGTYPE == "file"
DIRTYPE == "dir"
SYMTYPE == "sym"
LNKTYPE == "lnk"

issym(info) == info.type = SYMTYPE
islnk(info) == info.type = LNKTYPE
isreg(info) == info.type = REGTYPE
isdir(info) == info.type = DIRTYPE

\* ------------------------------------------------------------------------
\* _repack_model.py
\* ------------------------------------------------------------------------

_get_resolved_path(fs, cwd, path) ==
  normpath(realpath(fs, cwd, abspath(path, cwd)))

_is_bad_path(fs, cwd, path, base) ==
  ~startswith(ToStr(_get_resolved_path(fs, cwd, joinpath(base, path))), ToStr(base))

_is_bad_link(fs, cwd, info, base) ==
  LET tip == _get_resolved_path(fs, cwd, joinpath(base, dirname(info.name)))
  IN _is_bad_path(fs, cwd, info.linkname, tip)

\* the messages of the three logger.error calls
MsgPath == "is blocked (illegal path)"
MsgSym == "is blocked: Symlink to"
MsgLnk == "is blocked: Hard link to"

\* _get_safe_members, one iteration of the loop: the diagnostics it logs
Diagnostic(fs, cwd, file_info, base) ==
  IF _is_bad_path(fs, cwd, file_info.name, base)
    THEN <<[msg |-> MsgPath, args |-> <<file_info.name>>]>>
  ELSE IF issym(file_info) /\ _is_bad_link(fs, cwd, file_info, base)
    THEN <<[msg |-> MsgSym, args |-> <<file_info.name, file_info.linkname>>]>>
  ELSE IF islnk(file_info) /\ _is_bad_link(fs, cwd, file_info, base)
    THEN <<[msg |-> MsgLnk, args |-> <<file_info.name, file_info.linkname>>]>>
  ELSE <<>>

IsYieldedAlways(fs, cwd, file_info, base) == TRUE

\* _get_safe_members, one iteration of the loop: the else branch yields
IsYielded(fs, cwd, file_info, base) ==
  /\ ~_is_bad_path(fs, cwd, file_info.name, base)
  /\ ~(issym(file_info) /\ _is_bad_link(fs, cwd, file_info, base))
  /\ ~(islnk(file_info) /\ _is_bad_link(fs, cwd, file_info, base))

YieldMemberFirst(ys, i, file_info) == <<[idx |-> i, member |-> file_info]>> \o ys

\* the yield statement: the consumer receives the members in yield order
YieldMember(ys, i, file_info) == Append(ys, [idx |-> i, member |-> file_info])

UseDataFilterNever(has) == FALSE

\* custom_extractall_tarfile: hasattr(tarfile, "data_filter")
UseDataFilter(has) == has

\* ------------------------------------------------------------------------
\* tarfile.extractall: what the operating system does with the paths it is
\* handed.  The kernel follows the symlinks on disk component by component
\* and takes ".." as the parent of the directory reached.
\* ------------------------------------------------------------------------

\* the kernel gives up (ELOOP) after this many nested symlinks
MaxSymlinks == 40

Failed(fs) == [ok |-> FALSE, fs |-> fs, loc |-> <<>>]

\* walk the directory components rest from the directory cur; a component
\* that is missing, a regular file, a dangling link or a link to a file is
\* an OSError
RECURSIVE Walk(_, _, _, _)
Walk(fs, cur, rest, fuel) ==
  IF rest = <<>> THEN [ok |-> TRUE, fs |-> fs, loc |-> cur]
  ELSE LET name == Head(rest)
           tl == Tail(rest)
       IN
    IF name = DOT THEN Walk(fs, cur, tl, fuel)
    ELSE IF name = DOTDOT THEN Walk(fs, Front(cur), tl, fuel)
    ELSE LET p == Append(cur, name) IN
      IF p \notin DOMAIN fs THEN Failed(fs)
      ELSE IF fs[p].kind = "dir" THEN Walk(fs, p, tl, fuel)
      ELSE IF fs[p].kind = "file" THEN Failed(fs)
      ELSE IF fuel = 0 THEN Failed(fs)
      ELSE LET tgt == fs[p].target
               r == Walk(fs, IF tgt.abs THEN <<>> ELSE cur, tgt.segs, fuel - 1)
           IN IF ~r.ok THEN Failed(fs)
              ELSE Walk(fs, r.loc, tl, fuel)

IsName(seg) == seg # DOT /\ seg # DOTDOT

\* the node a path names, the last component followed when it is a link:
\* [ok, loc]; ok is os.path.exists
RECURSIVE Follow(_, _, _, _)

\* the last component of the path, in the directory the walk d reached
FollowLast(fs, d, last, fuel) ==
  IF ~d.ok THEN [ok |-> FALSE, loc |-> <<>>]
  ELSE IF last = DOT THEN [ok |-> TRUE, loc |-> d.loc]
  ELSE IF last = DOTDOT THEN [ok |-> TRUE, loc |-> Front(d.loc)]
  ELSE IF Append(d.loc, last) \notin DOMAIN fs
    THEN [ok |-> FALSE, loc |-> Append(d.loc, last)]
  ELSE IF fs[Append(d.loc, last)].kind # "sym"
    THEN [ok |-> TRUE, loc |-> Append(d.loc, last)]
  ELSE IF fuel = 0 THEN [ok |-> FALSE, loc |-> Append(d.loc, last)]
  ELSE Follow(fs, IF fs[Append(d.loc, last)].target.abs THEN <<>> ELSE d.loc,
              fs[Append(d.loc, last)].target.segs, fuel - 1)

Follow(fs, cur, segs, fuel) ==
  IF segs = <<>> THEN [ok |-> TRUE, loc |-> cur]
  ELSE FollowLast(fs, Walk(fs, cur, Front(segs), fuel), segs[Len(segs)], fuel)

\* the outcome of os.mkdir and os.makedirs: err is "exists" for a
\* FileExistsError
Made(ok, fs, err) == [ok |-> ok, fs |-> fs, err |-> err]

\* os.mkdir(name), d being the walk to the directory of name
MkdirIn(fs, d, segs) ==
  IF segs = <<>> THEN Made(FALSE, fs, "exists")
  ELSE IF ~d.ok THEN Made(FALSE, fs, "other")
  ELSE IF ~IsName(segs[Len(segs)]) \/ Append(d.loc, segs[Len(segs)]) \in DOMAIN fs
    THEN Made(FALSE, fs, "exists")
  ELSE Made(TRUE, Put(fs, Append(d.loc, segs[Len(segs)]), DirNode), "none")

Mkdir(fs, start, segs) ==
  MkdirIn(fs, Walk(fs, start, Front(segs), MaxSymlinks), segs)

\* os.makedirs(name) once the head h has been made: a FileExistsError of
\* the head is passed over, then the leaf is made with os.mkdir
MakedirsLeaf(h, start, segs) ==
  IF ~h.ok /\ h.err # "exists" THEN h
  ELSE IF segs[Len(segs)] = DOT THEN Made(TRUE, h.fs, "none")
  ELSE Mkdir(h.fs, start, segs)

\* os.makedirs(name): the head is made first when it does not exist
RECURSIVE Makedirs(_, _, _)
Makedirs(fs, start, segs) ==
  IF segs = <<>> THEN Mkdir(fs, start, segs)
  ELSE IF ~Follow(fs, start, Front(segs), MaxSymlinks).ok
    THEN MakedirsLeaf(Makedirs(fs, start, Front(segs)), start, segs)
  ELSE Mkdir(fs, start, segs)

\* the outcome of extracting one member: st is "ok", "skip" (an
\* ExtractError, which extractall only logs at errorlevel 1) or "fatal"
\* (an OSError or KeyError, which extractall raises); wrote is the set of
\* locations where the member's data or link was put
Res(st, fs, wrote) == [st |-> st, fs |-> fs, wrote |-> wrote]

\* TarFile.makefile: open(targetpath, "wb") in the directory d; a link at
\* the last component is followed, a dangling one creates its target
RECURSIVE OpenWrite(_, _, _, _)

\* the link target tgt is opened, td being the walk to its directory
OpenTarget(fs, td, tgt, fuel) ==
  IF fuel = 0 \/ tgt.segs = <<>> \/ ~td.ok THEN Res("fatal", fs, {})
  ELSE OpenWrite(fs, td.loc, tgt.segs[Len(tgt.segs)], fuel - 1)

OpenWrite(fs, d, last, fuel) ==
  IF ~IsName(last) THEN Res("fatal", fs, {})
  ELSE IF Append(d, last) \notin DOMAIN fs
    THEN Res("ok", Put(fs, Append(d, last), FileNode), {Append(d, last)})
  ELSE IF fs[Append(d, last)].kind = "file" THEN Res("ok", fs, {Append(d, last)})
  ELSE IF fs[Append(d, last)].kind = "dir" THEN Res("fatal", fs, {})
  ELSE OpenTarget(fs,
         Walk(fs, IF fs[Append(d, last)].target.abs THEN <<>> ELSE d,
              Front(fs[Append(d, last)].target.segs), fuel),
         fs[Append(d, last)].target, fuel)

\* TarFile.makedir: os.mkdir, FileExistsError is passed over
MakeDir(fs, d, last) ==
  IF ~IsName(last) \/ Append(d, last) \in DOMAIN fs THEN Res("ok", fs, {})
  ELSE Res("ok", Put(fs, Append(d, last), DirNode), {Append(d, last)})

\* TarFile.makelink for a symlink: unlink what is there, os.symlink
MakeSymlink(fs, d, last, linkname) ==
  LET p == Append(d, last) IN
  IF ~IsName(last) THEN Res("oserror", fs, {})
  ELSE IF p \in DOMAIN fs /\ fs[p].kind = "dir" THEN Res("oserror", fs, {})
  ELSE Res("ok", Put(fs, p, SymNode(linkname)), {p})

\* TarFile.makelink for a hard link whose source exists: os.link
MakeHardlink(fs, d, last, srcloc) ==
  LET p == Append(d, last) IN
  IF ~IsName(last) \/ p \in DOMAIN fs THEN Res("oserror", fs, {})
  ELSE IF srcloc = <<>> \/ fs[srcloc].kind = "dir" THEN Res("oserror", fs, {})
  ELSE Res("ok", Put(fs, p, fs[srcloc]), {p})

\* TarFile._getmember(name, normalize=True) over the members before the
\* link, from bottom to top: the index of the member found, 0 when none
RECURSIVE GetMember(_, _, _)
GetMember(members, name, i) ==
  IF i = 0 THEN 0
  ELSE IF normpath(members[i].name) = normpath(name) THEN i
  ELSE GetMember(members, name, i - 1)

\* TarFile._find_link_target: the name that is looked up in the archive
LinkTargetName(info) ==
  IF issym(info) THEN joinpath(dirname(info.name), info.linkname)
  ELSE info.linkname

\* the node os.link links to: the last component of the source path is not
\* followed when it is a link
LinkSource(fs, start, segs) ==
  IF segs = <<>> \/ ~IsName(segs[Len(segs)])
  THEN Follow(fs, start, segs, MaxSymlinks).loc
  ELSE Append(Walk(fs, start, Front(segs), MaxSymlinks).loc, segs[Len(segs)])

\* TarFile.makelink, the try block: the link is made in the directory the
\* walk up reached; tp is os.path.join(path, linkname), the source of a
\* hard link; "nosource" when that source does not exist
TryLink(fs, up, last, info, start, tp) ==
  IF issym(info) THEN
    IF up.ok THEN MakeSymlink(fs, up.loc, last, info.linkname)
    ELSE Res("oserror", fs, {})
  ELSE IF ~Follow(fs, start, tp.segs, MaxSymlinks).ok THEN Res("nosource", fs, {})
  ELSE IF up.ok THEN MakeHardlink(fs, up.loc, last, LinkSource(fs, start, tp.segs))
  ELSE Res("oserror", fs, {})

\* TarFile.makelink, the except block: after an OSError the member the link
\* names is extracted in its place, and a KeyError of the lookup becomes an
\* ExtractError; without a source the lookup is made in the try block,
\* where its KeyError is raised as it is
LinkOutcome(r, fallback) ==
  IF r.st = "ok" THEN r
  ELSE IF fallback.st # "nomember" THEN fallback
  ELSE IF r.st = "nosource" THEN Res("fatal", r.fs, {})
  ELSE Res("skip", r.fs, {})

\* the index in before of the member a link names, 0 when there is none
FindLinkTarget(info, before) ==
  GetMember(before, LinkTargetName(info), Len(before))

\* TarFile._extract_member(tarinfo, targetpath) for the member info, with
\* start and segs the start directory and the components of targetpath,
\* root the extraction directory and the working directory, and before the
\* members of the archive read before info
RECURSIVE ExtractMember(_, _, _, _, _, _)

\* the member found in the archive is extracted in the place of the link
Fallback(fs, found, start, segs, root, before) ==
  IF found = 0 THEN Res("nomember", fs, {})
  ELSE ExtractMember(fs, before[found], start, segs, root, SubSeq(before, 1, found - 1))

\* the member is made in the directory the walk up reached
ExtractIn(fs, up, info, start, segs, root, before) ==
  IF isreg(info) THEN
    IF up.ok THEN OpenWrite(fs, up.loc, segs[Len(segs)], MaxSymlinks)
    ELSE Res("fatal", fs, {})
  ELSE IF isdir(info) THEN
    IF up.ok THEN MakeDir(fs, up.loc, segs[Len(segs)])
    ELSE Res("fatal", fs, {})
  ELSE LinkOutcome(
         TryLink(fs, up, segs[Len(segs)], info,
                 IF joinpath(root.path, info.linkname).abs THEN <<>> ELSE root.cwd,
                 joinpath(root.path, info.linkname)),
         Fallback(fs, FindLinkTarget(info, before), start, segs, root, before))

\* after the upper directories have been made
ExtractMade(made, info, start, segs, root, before) ==
  IF ~made.ok \/ segs = <<>> THEN Res("fatal", made.fs, {})
  ELSE ExtractIn(made.fs, Walk(made.fs, start, Front(segs), MaxSymlinks),
                 info, start, segs, root, before)

ExtractMember(fs, info, start, segs, root, before) ==
  ExtractMade(IF Follow(fs, start, Front(segs), MaxSymlinks).ok
                THEN Made(TRUE, fs, "none")
                ELSE Makedirs(fs, start, Front(segs)),
              info, start, segs, root, before)

\* TarFile._extract_one(tarinfo, path): targetpath = os.path.join(path, name)
ExtractOne(fs, cwd, path, info, before) ==
  LET targetpath == joinpath(path, info.name)
  IN ExtractMember(fs, info, IF targetpath.abs THEN <<>> ELSE cwd,
                   targetpath.segs, [path |-> path, cwd |-> cwd], before)

\* tarfile.data_filter(member, dest_path) of the platform: "reject" raises a
\* FilterError, which extractall raises at errorlevel 1
DataFilter(fs, cwd, info, dest_path) ==
  LET dest == realpath(fs, cwd, dest_path)
      name == RelPath(info.name.segs)
      target_path == realpath(fs, cwd, joinpath(dest, name))
      link_path == realpath(fs, cwd,
                     IF issym(info)
                     THEN joinpath(joinpath(dest, dirname(name)), info.linkname)
                     ELSE joinpath(dest, info.linkname))
  IN
  IF ~SegWithin(target_path, dest) THEN [ok |-> FALSE, info |-> info]
  ELSE IF (issym(info) \/ islnk(info)) /\ info.linkname.abs
    THEN [ok |-> FALSE, info |-> info]
  ELSE IF (issym(info) \/ islnk(info)) /\ ~SegWithin(link_path, dest)
    THEN [ok |-> FALSE, info |-> info]
  ELSE [ok |-> TRUE, info |-> [info EXCEPT !.name = name]]

\* ------------------------------------------------------------------------
\* The archives and the environment of one call
\* ------------------------------------------------------------------------

Seg(c) == <<c>>
TargetDir == <<Seg("o")>>
SiblingDir == <<<<"o", "b">>>>
OtherDir == <<Seg("w")>>

\* the disk before the call: /o (the directory extracted to), /ob and /w
InitialFs ==
  [x \in {TargetDir, SiblingDir, OtherDir} |-> DirNode]

Cwds == {TargetDir, OtherDir}
ExtractPaths == {AbsPath(TargetDir)}

FileNames ==
  { RelPath(<<Seg("a")>>),
    RelPath(<<Seg("l"), Seg("a")>>),
    RelPath(<<Seg("l"), DOTDOT, Seg("a")>>),
    RelPath(<<DOTDOT, Seg("a")>>),
    RelPath(<<DOTDOT, <<"o", "b">>, Seg("a")>>),
    AbsPath(<<Seg("w"), Seg("a")>>) }

Member(t, n, l) == [type |-> t, name |-> n, linkname |-> l]

Files == {Member(REGTYPE, n, EmptyPath) : n \in FileNames}
Dirs == {Member(DIRTYPE, RelPath(<<Seg("s")>>), EmptyPath)}
Syms ==
  {Member(SYMTYPE, RelPath(<<Seg("l")>>), t) :
     t \in {RelPath(<<DOT>>), RelPath(<<DOTDOT, <<"o", "b">>>>), RelPath(<<DOTDOT>>)}}
  \cup {Member(SYMTYPE, RelPath(<<Seg("s"), Seg("l")>>), RelPath(<<DOTDOT, Seg("a")>>))}
Lnks ==
  {Member(LNKTYPE, RelPath(<<Seg("l")>>), t) :
     t \in {RelPath(<<Seg("a")>>), RelPath(<<DOTDOT, Seg("a")>>)}}

Members == Files \cup Dirs \cup Syms \cup Lnks

\* ------------------------------------------------------------------------
\* State
\* ------------------------------------------------------------------------

VARIABLES
  cwd,            \* the working directory of the process (a location)
  extract_path,   \* the argument of custom_extractall_tarfile
  hasDataFilter,  \* hasattr(tarfile, "data_filter") on this platform
  pc,             \* "call", "gen", "extract", "platform", "done", "failed"
  capChecks,      \* how many times the capability was tested
  filterArg,      \* the filter argument of extractall: "none" or "data"
  base,           \* the local base of _get_safe_members
  input,          \* the members read from the archive so far
  log,            \* the logger.error records, with the index of the member
  yielded,        \* the members the generator has yielded
  extracted,      \* the members extractall has handed to _extract_one
  fs,             \* the disk
  writes          \* where the members were put: [idx, loc]

vars == <<cwd, extract_path, hasDataFilter, pc, capChecks, filterArg, base,
          input, log, yielded, extracted, fs, writes>>

NoBase == RelPath(<<>>)

Init ==
  /\ cwd \in Cwds
  /\ extract_path \in ExtractPaths
  /\ hasDataFilter \in BOOLEAN
  /\ pc = "call"
  /\ capChecks = 0
  /\ filterArg = "none"
  /\ base = NoBase
  /\ input = <<>>
  /\ log = <<>>
  /\ yielded = <<>>
  /\ extracted = <<>>
  /\ fs = InitialFs
  /\ writes = {}

\* custom_extractall_tarfile: the capability check and the call of
\* extractall; on the custom branch extractall starts the generator, which
\* computes base before its loop
Call ==
  /\ pc = "call"
  /\ capChecks' = capChecks + 1
  /\ IF UseDataFilter(hasDataFilter)
       THEN /\ pc' = "platform"
            /\ filterArg' = "data"
            /\ base' = base
       ELSE /\ pc' = "gen"
            /\ filterArg' = "none"
            /\ base' = _get_resolved_path(fs, cwd, RelPath(<<DOT>>))
  /\ UNCHANGED <<cwd, extract_path, hasDataFilter, input, log, yielded,
                 extracted, fs, writes>>

\* _get_safe_members: one iteration of the loop over the archive
Classify(file_info) ==
  /\ pc = "gen"
  /\ Len(input) < MaxMembers
  /\ input' = Append(input, file_info)
  /\ \E d \in {Diagnostic(fs, cwd, file_info, base)} :
       log' = log \o [k \in DOMAIN d |->
                        [idx |-> Len(input) + 1, msg |-> d[k].msg, args |-> d[k].args]]
  /\ IF IsYielded(fs, cwd, file_info, base)
       THEN /\ yielded' = YieldMember(yielded, Len(input) + 1, file_info)
            /\ pc' = "extract"
       ELSE /\ yielded' = yielded
            /\ pc' = "gen"
  /\ UNCHANGED <<cwd, extract_path, hasDataFilter, capChecks, filterArg, base,
                 extracted, fs, writes>>

\* the archive has no more members: the generator returns, extractall ends
Exhausted ==
  /\ pc = "gen"
  /\ pc' = "done"
  /\ UNCHANGED <<cwd, extract_path, hasDataFilter, capChecks, filterArg, base,
                 input, log, yielded, extracted, fs, writes>>

\* extractall: the body of its loop for the member the generator yielded
Extract ==
  /\ pc = "extract"
  /\ \E y \in {yielded[Len(extracted) + 1]} :
       /\ extracted' = Append(extracted, y)
       /\ \E r \in {ExtractOne(fs, cwd, extract_path, y.member,
                               SubSeq(input, 1, y.idx - 1))} :
            /\ fs' = r.fs
            /\ writes' = writes \cup {[idx |-> y.idx, loc |-> w] : w \in r.wrote}
            /\ pc' = IF r.st = "fatal" THEN "failed" ELSE "gen"
  /\ UNCHANGED <<cwd, extract_path, hasDataFilter, capChecks, filterArg, base,
                 input, log, yielded>>

\* extractall(path, filter="data"): the body of its loop for the next member
PlatformExtract(member) ==
  /\ pc = "platform"
  /\ Len(input) < MaxMembers
  /\ input' = Append(input, member)
  /\ \E f \in {DataFilter(fs, cwd, member, extract_path)} :
       IF ~f.ok
         THEN /\ pc' = "failed"
              /\ UNCHANGED <<extracted, fs, writes>>
         ELSE /\ extracted' = Append(extracted, [idx |-> Len(input) + 1, member |-> f.info])
              /\ \E r \in {ExtractOne(fs, cwd, extract_path, f.info, input)} :
                   /\ fs' = r.fs
                   /\ writes' = writes \cup {[idx |-> Len(input) + 1, loc |-> w] : w \in r.wrote}
                   /\ pc' = IF r.st = "fatal" THEN "failed" ELSE "platform"
  /\ UNCHANGED <<cwd, extract_path, hasDataFilter, capChecks, filterArg, base,
                 log, yielded>>

\* the archive has no more members on the platform branch
PlatformExhausted ==
  /\ pc = "platform"
  /\ pc' = "done"
  /\ UNCHANGED <<cwd, extract_path, hasDataFilter, capChecks, filterArg, base,
                 input, log, yielded, extracted, fs, writes>>

Next ==
  \/ Call
  \/ \E file_info \in Members : Classify(file_info)
  \/ Exhausted
  \/ Extract
  \/ \E member \in Members : PlatformExtract(member)
  \/ PlatformExhausted

Spec == Init /\ [][Next]_vars

\* ------------------------------------------------------------------------
\* Vocabulary of the properties
\* ------------------------------------------------------------------------

\* the call runs the custom filter (extractall was handed the generator)
CustomBranch == pc # "call" /\ filterArg = "none"

\* the canonical form of the directory the members are written under
ExtractDir == realpath(fs, cwd, extract_path)

YieldedIdx == {yielded[k].idx : k \in DOMAIN yielded}
LoggedIdx == {log[k].idx : k \in DOMAIN log}

\* the last member read has been classified against the disk as it is now:
\* it was blocked, or it was yielded and is not extracted yet
JustClassified ==
  /\ CustomBranch
  /\ pc \in {"gen", "extract"}
  /\ input # <<>>
  /\ (pc = "extract" \/ Len(input) \notin YieldedIdx)

Last == input[Len(input)]

\* the diagnostic logged for the last member read, if any
LastIsLogged(msg) ==
  /\ Len(input) \notin YieldedIdx
  /\ log # <<>>
  /\ log[Len(log)].idx = Len(input)
  /\ log[Len(log)].msg = msg

IsLink(info) == issym(info) \/ islnk(info)

\* ------------------------------------------------------------------------
\* Properties
\* ------------------------------------------------------------------------

\* C1: on the custom-filter branch, after every prefix of the extraction
\* pass, every location where a member was written is the target directory
\* or a descendant of it.
C1_WritesStayInTarget ==
  CustomBranch =>
    \A w \in writes : SegWithin(AbsPath(w.loc), ExtractDir)

\* C2: a member whose name, joined to the base directory and resolved, is
\* neither the base nor below it by whole path segments is classified
\* BlockedPath: it is not yielded and the illegal-path diagnostic is logged.
C2_OutsideBaseIsBlockedPath ==
  JustClassified =>
    (~SegWithin(_get_resolved_path(fs, cwd, joinpath(base, Last.name)), base)
       => LastIsLogged(MsgPath))

\* C3: a symbolic or hard link whose name passes the path check but whose
\* target, taken relative to the directory containing the link, resolves
\* outside the base directory is not yielded and is logged with the
\* diagnostic of its link type.
C3_OutsideLinkIsBlockedByType ==
  JustClassified /\ IsLink(Last) /\ ~_is_bad_path(fs, cwd, Last.name, base) =>
    LET tip == _get_resolved_path(fs, cwd, joinpath(base, dirname(Last.name)))
        target == _get_resolved_path(fs, cwd, joinpath(tip, Last.linkname))
    IN ~SegWithin(target, base) =>
         LastIsLogged(IF issym(Last) THEN MsgSym ELSE MsgLnk)

\* C4: no false blocks: a member whose name, joined to the base directory
\* and normalized, stays within the base directory, and which is not a link
\* or is a link whose target (relative to the link's directory) also stays
\* within the base directory, is yielded.
C4_NoFalseBlocks ==
  JustClassified =>
    LET name == normpath(joinpath(base, Last.name))
        target == normpath(joinpath(joinpath(base, dirname(Last.name)), Last.linkname))
    IN (SegWithin(name, base) /\ (IsLink(Last) => SegWithin(target, base)))
         => Len(input) \in YieldedIdx

\* C5: on the custom-filter branch the base directory the members are
\* classified against is the canonical form of extract_path, whatever the
\* working directory is.
C5_BaseIsExtractPath ==
  CustomBranch => base = ExtractDir

\* C6: the members yielded by _get_safe_members are a subsequence of the
\* input: exactly the members that passed both checks (the ones without a
\* diagnostic), each once, in the order of the archive.
C6_OrderPreserved ==
  /\ \A k \in DOMAIN yielded :
       /\ yielded[k].idx \in DOMAIN input
       /\ yielded[k].member = input[yielded[k].idx]
  /\ \A j, k \in DOMAIN yielded : j < k => yielded[j].idx < yielded[k].idx
  /\ CustomBranch => YieldedIdx = DOMAIN input \ LoggedIdx
  /\ JustClassified =>
       (Len(input) \in YieldedIdx <=>
          /\ ~_is_bad_path(fs, cwd, Last.name, base)
          /\ (IsLink(Last) => ~_is_bad_link(fs, cwd, Last, base)))

\* a blocked member between two yielded members, at the end of the pass
C6_Witness ==
  /\ pc = "done"
  /\ \E i, j, k \in DOMAIN input :
       /\ i < j /\ j < k
       /\ i \in YieldedIdx /\ j \in LoggedIdx /\ k \in YieldedIdx

\* C7: every member read ends in exactly one outcome: it is yielded, or
\* exactly one diagnostic is logged for it, naming the member and, for the
\* link outcomes, the link target; never both, never neither.  A blocked
\* member is not fatal (the pass fails only while extracting a yielded
\* member), and an outcome is never changed afterwards.
C7_OneOutcomeState ==
  CustomBranch =>
    /\ \A i \in DOMAIN input :
         Cardinality({k \in DOMAIN yielded : yielded[k].idx = i})
           + Cardinality({k \in DOMAIN log : log[k].idx = i}) = 1
    /\ \A k \in DOMAIN log :
         /\ log[k].idx \in DOMAIN input
         /\ log[k].msg \in {MsgPath, MsgSym, MsgLnk}
         /\ log[k].msg = MsgPath => log[k].args = <<input[log[k].idx].name>>
         /\ log[k].msg = MsgSym =>
              /\ issym(input[log[k].idx])
              /\ log[k].args = <<input[log[k].idx].name, input[log[k].idx].linkname>>
         /\ log[k].msg = MsgLnk =>
              /\ islnk(input[log[k].idx])
              /\ log[k].args = <<input[log[k].idx].name, input[log[k].idx].linkname>>
    /\ pc = "failed" => Len(input) \in YieldedIdx
    /\ (input # <<>> /\ Len(input) \notin YieldedIdx) => pc \in {"gen", "done"}

C7_OutcomeKept ==
  /\ \A k \in DOMAIN log : k \in DOMAIN log' /\ log'[k] = log[k]
  /\ \A k \in DOMAIN yielded : k \in DOMAIN yielded' /\ yielded'[k] = yielded[k]
  /\ \A i \in DOMAIN input : i \in DOMAIN input' /\ input'[i] = input[i]

C7_OneOutcome == [](C7_OneOutcomeState) /\ [][C7_OutcomeKept]_vars

\* a blocked link is followed by a member that is classified and extracted
C7_Witness ==
  /\ pc = "done"
  /\ \E i, j \in DOMAIN input :
       /\ i < j
       /\ \E k \in DOMAIN log : log[k].idx = i /\ log[k].msg \in {MsgSym, MsgLnk}
       /\ \E k \in DOMAIN extracted : extracted[k].idx = j

\* C8: the capability is tested once per call; with tarfile.data_filter the
\* extraction is delegated to the "data" filter and the custom checks and
\* their diagnostics never run; without it the extraction receives exactly
\* the members the generator yielded.
C8_PlatformDelegation ==
  /\ capChecks <= 1
  /\ pc # "call" => capChecks = 1
  /\ (pc # "call" /\ hasDataFilter) =>
       /\ filterArg = "data"
       /\ base = NoBase /\ log = <<>> /\ yielded = <<>>
  /\ (pc # "call" /\ ~hasDataFilter) =>
       /\ filterArg = "none"
       /\ Len(extracted) <= Len(yielded)
       /\ extracted = SubSeq(yielded, 1, Len(extracted))
       /\ pc = "extract" => Len(yielded) = Len(extracted) + 1
       /\ pc # "extract" => extracted = yielded

\* a delegated pass that extracted a member while the platform has the filter
C8_Witness ==
  /\ hasDataFilter
  /\ pc = "done"
  /\ extracted # <<>>

\* C9 (running the filter twice on an unchanged disk gives the same
\* classification) has no formula: Diagnostic and IsYielded are functions of
\* the member, the base and the disk, and Classify leaves the disk as it is.

\* C10: classification is interleaved with extraction, and a member whose
\* literal name is inside the target directory but whose resolution through
\* the symlinks on disk (made by earlier members) is outside it is
\* classified BlockedPath.
C10_OnDiskResolutionBlocks ==
  /\ (CustomBranch /\ pc # "extract") => extracted = yielded
  /\ JustClassified =>
       LET literal == normpath(joinpath(ExtractDir, Last.name))
           ondisk == realpath(fs, cwd, joinpath(ExtractDir, Last.name))
       IN (SegWithin(literal, ExtractDir) /\ ~SegWithin(ondisk, ExtractDir))
            => LastIsLogged(MsgPath)

====
